---- MODULE Spec2Model ----
(***************************************************************************)
(* A model of the rendering pipeline of the raytracerchallenge crate:      *)
(* intersection collections and hit selection (intersection.rs), the       *)
(* refraction container walk (Intersection::compute_n1_n2), the recursive  *)
(* shading of World (world.rs) and the per-pixel loops of Camera           *)
(* (camera.rs).                                                            *)
(*                                                                         *)
(* Numbers.  The scene of the world machine is made of planes whose        *)
(* transform is a translation along y, so every quantity the pipeline      *)
(* compares is exact over the integers:                                    *)
(*   - positions are counted in multiples of EPSILON (epsilon.rs:1), so    *)
(*     over_point = point + normal * EPSILON is point + normal;            *)
(*   - a direction is kept as the sign of direction.y and the fraction     *)
(*     direction.y^2 = p/q of the unit vector;                             *)
(*   - a ray parameter t is kept as [num, p, q], standing for the real     *)
(*     number num / sqrt(p/q): for a plane, t = -origin.y / direction.y;   *)
(*   - refractive indices are counted in halves (1.0 is 2, 1.5 is 3);      *)
(*   - a colour is one channel, an integer; coefficients are 0 or 1.       *)
(***************************************************************************)
EXTENDS Integers, Sequences, FiniteSets, TLC

VARIABLES
    objects,        \* World.objects: sequence of shapes
    lights,         \* World.lights: sequence of point lights
    camera,         \* Camera: hsize, vsize and the y of its transform
    budget,         \* the recursion budget render passes to color_at
    pc,             \* where Camera.render / Camera.par_render stands
    px, py,         \* loop indices of Camera.render
    image,          \* the Canvas of Camera.render
    writes,         \* number of write_pixel calls of render per pixel
    intersections,  \* the Vec that Camera.render reuses for every pixel
    stack,          \* call stack of color_at activations (innermost last)
    rows,           \* par_render: the Vec each render_row has built so far
    cur,            \* par_render: the row whose pixel is being computed
    canvas,         \* the Canvas of Camera.par_render
    aborted,        \* "" or the reason the program aborted
    hxs,            \* harness: the collection or arguments given to an operation
    hobjs,          \* harness: the shapes the collection refers to
    hsel,           \* harness: index of the chosen intersection
    hout,           \* harness: what the operation returned and left behind
    setup           \* scene setup: a Plane, a Sphere, a Camera and a Pattern

vars == << objects, lights, camera, budget, pc, px, py, image, writes,
           intersections, stack, rows, cur, canvas, aborted,
           hxs, hobjs, hsel, hout, setup >>

machineVars == << objects, lights, camera, budget, pc, px, py, image, writes,
                  intersections, stack, rows, cur, canvas, aborted >>

harnessVars == << hxs, hobjs, hsel, hout, setup >>

----------------------------------------------------------------------------
(* Bounds of the model *)

MaxLen == 3          \* longest intersection collection of the hit harness
MaxRecursion == 2    \* largest recursion budget given to color_at
MaxSize == 2         \* largest hsize and vsize of the camera
StackLimit == 6      \* color_at activations the thread's stack has room for

(* Program constants *)

VACUUM == 2          \* refractive index 1.0, in halves
EPSILON_INV == 10000 \* 1 / EPSILON

NONE == [none |-> TRUE]
BLACK == 0

----------------------------------------------------------------------------
(* f64 ray parameters: num / sqrt(p/q); q = 0 (p/q = 0/0) is NaN *)

T(n) == [num |-> n, p |-> 1, q |-> 1]

\* f64::is_nan
IsNaN(a) == a.q = 0

\* a.t < b.t, false when either is NaN
TLt(a, b) ==
    IF IsNaN(a) \/ IsNaN(b) THEN FALSE
    ELSE IF a.num < 0 /\ b.num >= 0 THEN TRUE
    ELSE IF a.num >= 0 /\ b.num < 0 THEN FALSE
    ELSE IF a.num >= 0
         THEN a.num * a.num * a.q * b.p < b.num * b.num * b.q * a.p
         ELSE a.num * a.num * a.q * b.p > b.num * b.num * b.q * a.p

\* a.t == b.t, false when either is NaN
TEq(a, b) == ~IsNaN(a) /\ ~IsNaN(b) /\ ~TLt(a, b) /\ ~TLt(b, a)

\* t < 0.0
TNeg(a) == ~IsNaN(a) /\ a.num < 0

RECURSIVE GCD(_, _)
GCD(a, b) == IF b = 0 THEN a ELSE GCD(b, a % b)

Sgn(x) == IF x > 0 THEN 1 ELSE IF x < 0 THEN -1 ELSE 0
Abs(x) == IF x < 0 THEN -x ELSE x

----------------------------------------------------------------------------
(* Matrices and the objects that cache an inverse *)

\* An f64 that is a fraction n/d, d > 0; n/0 is what a division by 0.0
\* gives: an infinity (n = 1, -1) or NaN (n = 0).
F64(n, d) ==
    IF d = 0 THEN [n |-> Sgn(n), d |-> 0]
    ELSE LET g == GCD(Abs(n), Abs(d))
         IN  [n |-> Sgn(d) * (n \div g), d |-> Abs(d) \div g]

FMul(x, y) ==
    IF x.d = 0 \/ y.d = 0 THEN F64(x.n * y.n, 0) ELSE F64(x.n * y.n, x.d * y.d)
FAdd(x, y) ==
    IF x.d = 0 \/ y.d = 0
    THEN F64(IF x.d = 0 /\ y.d = 0 /\ x.n # y.n THEN 0
             ELSE IF x.d = 0 THEN x.n ELSE y.n, 0)
    ELSE F64(x.n * y.d + y.n * x.d, x.d * y.d)
FNeg(x) == [x EXCEPT !.n = -x.n]
FDiv(x, y) ==
    IF x.d = 0 \/ y.d = 0
    THEN (IF x.d = 0 /\ y.d # 0
          THEN F64(x.n * (IF y.n < 0 THEN -1 ELSE 1), 0)
          ELSE IF y.d = 0 /\ x.d # 0 /\ y.n # 0 THEN F64(0, 1)
          ELSE F64(0, 0))
    ELSE F64(x.n * y.d, x.d * y.n)

\* A Mat4 built from translations along y and uniform scalings, kept by
\* what it does to a y coordinate and the 1 under it: the rows (a b), (c e)
\* of the matrix, y' = a * y + b.
Mat4(a, b, c, e) == [a |-> a, b |-> b, c |-> c, e |-> e]

IDENTITY_MATRIX_4 == Mat4(F64(1, 1), F64(0, 1), F64(0, 1), F64(1, 1))

\* Mat4::new_translation(0, y, 0)
new_translation(y) == Mat4(F64(1, 1), F64(y, 1), F64(0, 1), F64(1, 1))

\* Mat4::new_scaling(y, y, y)
new_scaling(y) == Mat4(F64(y, 1), F64(0, 1), F64(0, 1), F64(1, 1))

\* Mat4 * Mat4
MatMul(m, k) ==
    Mat4(FAdd(FMul(m.a, k.a), FMul(m.b, k.c)), FAdd(FMul(m.a, k.b), FMul(m.b, k.e)),
         FAdd(FMul(m.c, k.a), FMul(m.e, k.c)), FAdd(FMul(m.c, k.b), FMul(m.e, k.e)))

\* Mat4::cofactor, rows and columns counted from 0
cofactor(m, row, col) ==
    IF row = 0 /\ col = 0 THEN m.e
    ELSE IF row = 0 /\ col = 1 THEN FNeg(m.c)
    ELSE IF row = 1 /\ col = 0 THEN FNeg(m.b)
    ELSE m.a

\* Mat4::determinant: the first row times its cofactors
determinant(m) ==
    FAdd(FMul(m.a, cofactor(m, 0, 0)), FMul(m.b, cofactor(m, 0, 1)))

\* Mat4::invertible
invertible(m) == determinant(m) # F64(0, 1)

inverse_Transposed(m) ==
    Mat4(FDiv(cofactor(m, 0, 0), determinant(m)),
         FDiv(cofactor(m, 0, 1), determinant(m)),
         FDiv(cofactor(m, 1, 0), determinant(m)),
         FDiv(cofactor(m, 1, 1), determinant(m)))

\* Mat4::inverse: m1[col][row] = cofactor(row, col) / determinant, with no
\* look at invertible
inverse(m) ==
    Mat4(FDiv(cofactor(m, 0, 0), determinant(m)),
         FDiv(cofactor(m, 1, 0), determinant(m)),
         FDiv(cofactor(m, 0, 1), determinant(m)),
         FDiv(cofactor(m, 1, 1), determinant(m)))

\* Plane::default, Sphere::default, Camera::new and
\* Pattern::new(pattern_fn, transformation_matrix)
Constructed(transformation_matrix) ==
    [plane |-> [transformation_matrix |-> IDENTITY_MATRIX_4,
                inverted_transformation_matrix |-> IDENTITY_MATRIX_4],
     sphere |-> [transformation_matrix |-> IDENTITY_MATRIX_4,
                 inverted_transformation_matrix |-> IDENTITY_MATRIX_4],
     camera |-> [transform |-> IDENTITY_MATRIX_4,
                 inverted_transform |-> IDENTITY_MATRIX_4],
     pattern |-> [transformation_matrix |-> transformation_matrix,
                  inverse_transformation_matrix |-> inverse(transformation_matrix)]]

----------------------------------------------------------------------------
(* Shapes and their equality *)

\* Material::eq compares colour, ambient, diffuse, specular and shininess
\* (shininess is the default everywhere in this model); reflective,
\* transparency and refractive_index take no part.
MaterialEq(a, b) ==
    /\ a.color = b.color
    /\ a.ambient = b.ambient
    /\ a.diffuse = b.diffuse
    /\ a.specular = b.specular

\* <dyn Shape as PartialEq>::eq through Shape::eq: the same concrete type
\* and the derived PartialEq of the struct (transform, inverse, material).
ShapeEq(a, b) ==
    /\ a.kind = b.kind
    /\ a.ty = b.ty
    /\ a.tx = b.tx
    /\ a.scale = b.scale
    /\ MaterialEq(a, b)

\* Intersection derives PartialEq: t == t and object == object, where object
\* is a &dyn Shape compared by ShapeEq.  An object is its index in objs.
IntersectionEq(objs, a, b) ==
    /\ TEq(a.t, b.t)
    /\ ShapeEq(objs[a.object], objs[b.object])

----------------------------------------------------------------------------
(* Hit selection *)

\* The element of a one-element set.  Only({F(x) : x \in {e}}) is F(e) with
\* e computed once, as a Rust let binding computes it.
Only(S) == CHOOSE x \in S : TRUE

HitStep_LessEq(lowest, intersection) ==
    IF TNeg(intersection.t) THEN lowest
    ELSE IF lowest = NONE THEN intersection
    ELSE IF ~TLt(lowest.t, intersection.t) THEN intersection
    ELSE lowest

HitStep_KeepsNegative(lowest, intersection) ==
    IF lowest = NONE THEN intersection
    ELSE IF TLt(intersection.t, lowest.t) THEN intersection
    ELSE lowest

\* One turn of the loop body shared by hit and consuming_hit.
HitStep(lowest, intersection) ==
    IF TNeg(intersection.t) THEN lowest
    ELSE IF lowest = NONE THEN intersection
    ELSE IF TLt(intersection.t, lowest.t) THEN intersection
    ELSE lowest

\* hit: for intersection in intersections, front to back.
RECURSIVE HitFrom(_, _, _)
HitFrom(xs, k, lowest) ==
    IF k > Len(xs) THEN lowest
    ELSE Only({HitFrom(xs, k + 1, l) : l \in {HitStep(lowest, xs[k])}})

hit(xs) ==
    Only({[result |-> HitFrom(ys, 1, NONE), intersections |-> ys] : ys \in {xs}})

\* consuming_hit: while let Some(intersection) = intersections.pop(), with
\* n elements still in the collection.
RECURSIVE PopAll(_, _, _)
PopAll(xs, n, lowest) ==
    IF n = 0 THEN [result |-> lowest, intersections |-> SubSeq(xs, 1, n)]
    ELSE Only({PopAll(xs, n - 1, l) : l \in {HitStep(lowest, xs[n])}})

consuming_hit_LeavesRest(xs) ==
    [result |-> HitFrom(xs, 1, NONE), intersections |-> xs]

consuming_hit(xs) == Only({PopAll(ys, Len(ys), NONE) : ys \in {xs}})

----------------------------------------------------------------------------
(* The refraction container walk *)

Contains(objs, containers, o) ==
    \E k \in 1..Len(containers) : ShapeEq(objs[containers[k]], objs[o])

Retain(objs, containers, o) ==
    SelectSeq(containers, LAMBDA x : ~ShapeEq(objs[x], objs[o]))

Toggle(objs, containers, o) ==
    IF Contains(objs, containers, o)
    THEN Retain(objs, containers, o)
    ELSE Append(containers, o)

TopIndex(objs, containers) ==
    IF containers = <<>> THEN VACUUM
    ELSE objs[containers[Len(containers)]].refractive_index

\* Intersection::compute_n1_n2: self is the chosen intersection.
RECURSIVE WalkN1N2(_, _, _, _, _, _)
WalkN1N2(objs, self, xs, k, containers, n1) ==
    IF k > Len(xs) THEN [n1 |-> n1, n2 |-> 0]
    ELSE LET isSelf == IntersectionEq(objs, xs[k], self)
             n1x == IF isSelf THEN TopIndex(objs, containers) ELSE n1
             cs == Toggle(objs, containers, xs[k].object)
         IN  IF isSelf THEN [n1 |-> n1x, n2 |-> TopIndex(objs, cs)]
             ELSE Only({WalkN1N2(objs, self, xs, k + 1, c, n1x) : c \in {cs}})

compute_n1_n2(objs, self, xs) == WalkN1N2(objs, self, xs, 1, <<>>, 0)

----------------------------------------------------------------------------
(* Rays, planes and World::intersect *)


\* A ray: origin.y, the sign dy of direction.y and direction.y^2 = p/q.
\* p/q = 0/0 is the direction of a normalized zero vector: NaN.
Ray(oy, dy, p, q) ==
    IF q = 0 THEN [oy |-> oy, dy |-> 0, p |-> 0, q |-> 0]
    ELSE LET g == GCD(p, q)
         IN  [oy |-> oy, dy |-> IF p = 0 THEN 0 ELSE dy,
              p |-> p \div g, q |-> q \div g]

\* ray.transformed(inverse) for a translation by ty along y.
Transformed(ray, shape) == [ray EXCEPT !.oy = ray.oy - shape.ty]

\* direction.y.abs() < EPSILON, i.e. p/q < EPSILON^2; false for NaN
AbsLtEpsilon(ray) ==
    ray.q # 0 /\ ray.p <= (ray.q - 1) \div (EPSILON_INV * EPSILON_INV)

\* Plane::local_intersect: the intersections it pushes; o is the plane.
PlaneLocalIntersect(ray, o) ==
    IF AbsLtEpsilon(ray) THEN <<>>
    ELSE << [t |-> [num |-> (-ray.oy) * ray.dy, p |-> ray.p, q |-> ray.q],
             object |-> o] >>

\* The square root of a square number.
Sqrt(n) == CHOOSE r \in 0..n : r * r = n

SphereLocalIntersect_LargerFirst(ray, shape, o) ==
    LET d == shape.scale * shape.scale - shape.tx * shape.tx
    IN  IF ray.q = 0
        THEN << [t |-> [num |-> 0, p |-> 0, q |-> 0], object |-> o],
                [t |-> [num |-> 0, p |-> 0, q |-> 0], object |-> o] >>
        ELSE IF d < 0 THEN <<>>
        ELSE << [t |-> [num |-> (-ray.oy) * ray.dy + Sqrt(d),
                        p |-> ray.p, q |-> ray.q], object |-> o],
                [t |-> [num |-> (-ray.oy) * ray.dy - Sqrt(d),
                        p |-> ray.p, q |-> ray.q], object |-> o] >>

\* Sphere::local_intersect of a sphere scaled by scale whose centre lies tx
\* beside the line of a ray along y (direction (0, +-1, 0), or NaN); the ray
\* is in object space but for the scaling and tx.  a = 1/scale^2,
\* b = 2*dy*oy/scale^2, c = (oy*oy + tx*tx)/scale^2 - 1, so that
\* discriminant = 4*(scale^2 - tx^2)/scale^4 and
\* t = -dy*oy -+ sqrt(scale^2 - tx^2).  A NaN discriminant is not < 0.0.
SphereLocalIntersect(ray, shape, o) ==
    LET d == shape.scale * shape.scale - shape.tx * shape.tx
    IN  IF ray.q = 0
        THEN << [t |-> [num |-> 0, p |-> 0, q |-> 0], object |-> o],
                [t |-> [num |-> 0, p |-> 0, q |-> 0], object |-> o] >>
        ELSE IF d < 0 THEN <<>>
        ELSE << [t |-> [num |-> (-ray.oy) * ray.dy - Sqrt(d),
                        p |-> ray.p, q |-> ray.q], object |-> o],
                [t |-> [num |-> (-ray.oy) * ray.dy + Sqrt(d),
                        p |-> ray.p, q |-> ray.q], object |-> o] >>

ShapeIntersect_ClearsFirst(objs, o, ray, xs) ==
    IF objs[o].kind = "sphere"
    THEN SphereLocalIntersect(Transformed(ray, objs[o]), objs[o], o)
    ELSE PlaneLocalIntersect(Transformed(ray, objs[o]), o)

\* Shape::intersect: appends to the collection, never clears it.
ShapeIntersect(objs, o, ray, xs) ==
    xs \o (IF objs[o].kind = "sphere"
           THEN SphereLocalIntersect(Transformed(ray, objs[o]), objs[o], o)
           ELSE PlaneLocalIntersect(Transformed(ray, objs[o]), o))

\* intersections.sort_by(|a, b| a.t.partial_cmp(&b.t).unwrap()): stable, so
\* an element ends up behind those with a smaller t and behind those with
\* an equal t that stood before it.
RankByT_LaterFirst(xs, k) ==
    1 + Cardinality({j \in 1..Len(xs) :
                        \/ TLt(xs[j].t, xs[k].t)
                        \/ (j > k /\ ~TLt(xs[k].t, xs[j].t))})

RankByT(xs, k) ==
    1 + Cardinality({j \in 1..Len(xs) :
                        \/ TLt(xs[j].t, xs[k].t)
                        \/ (j < k /\ ~TLt(xs[k].t, xs[j].t))})

SortByT(xs) ==
    Only({[i \in 1..Len(ys) |-> ys[CHOOSE k \in 1..Len(ys) : RankByT(ys, k) = i]] :
             ys \in {xs}})

RECURSIVE IntersectAll(_, _, _, _)
IntersectAll(objs, o, ray, xs) ==
    IF o > Len(objs) THEN xs
    ELSE IntersectAll(objs, o + 1, ray, ShapeIntersect(objs, o, ray, xs))

\* World::intersect
intersect(objs, ray, xs) == SortByT(IntersectAll(objs, 1, ray, xs))

----------------------------------------------------------------------------
(* Prepared computations *)

\* Shape::normal_at, the y of the normal: a plane's is (0, 1, 0), that of a
\* sphere centred on the line of the ray points from the centre to the point.
normal_at(shape, point) ==
    IF shape.kind = "sphere" THEN Sgn(point - shape.ty) ELSE 1

prepare_computations_NeverFlips(objs, i, ray, xs) ==
    LET point == ray.oy + ray.dy * i.t.num
        normal == normal_at(objs[i.object], point)
        n == compute_n1_n2(objs, i, xs)
    IN  [t |-> i.t, object |-> i.object, point |-> point,
         over_point |-> point + normal, under_point |-> point - normal,
         eyev |-> [dy |-> -ray.dy, p |-> ray.p, q |-> ray.q],
         normalv |-> normal, inside |-> FALSE,
         reflectv |-> [dy |-> -ray.dy, p |-> ray.p, q |-> ray.q],
         n1 |-> n.n1, n2 |-> n.n2]

\* Intersection::prepare_computations.  eyev is -direction, so
\* normal.dot(eyev) has the sign of normal.y * -direction.y.
prepare_computations(objs, i, ray, xs) ==
    LET point == ray.oy + ray.dy * i.t.num
        n0 == normal_at(objs[i.object], point)
        inside == n0 * (-ray.dy) < 0
        normal == IF inside THEN -n0 ELSE n0
        n == compute_n1_n2(objs, i, xs)
    IN  [t |-> i.t, object |-> i.object, point |-> point,
         over_point |-> point + normal, under_point |-> point - normal,
         eyev |-> [dy |-> -ray.dy, p |-> ray.p, q |-> ray.q],
         normalv |-> normal, inside |-> inside,
         reflectv |-> [dy |-> -ray.dy, p |-> ray.p, q |-> ray.q],
         n1 |-> n.n1, n2 |-> n.n2]

----------------------------------------------------------------------------
(* Shadows and lighting *)

\* sort_by(.. partial_cmp(..).unwrap()) compares every element of a slice of
\* two or more, and partial_cmp is None on a NaN.
SortPanics(xs) == Len(xs) >= 2 /\ \E k \in 1..Len(xs) : IsNaN(xs[k].t)

\* World::intersect panics in its sort.
intersect_panics(objs, ray, xs) == SortPanics(IntersectAll(objs, 1, ray, xs))

\* World::in_shadow: Ray::new(*point, v.normalized()) for v = light.position
\* - point, the light on the vertical through the point; v = 0 normalizes
\* to 0/0.
ShadowRay(light, point) ==
    LET v == light.y - point
    IN  Ray(point, Sgn(v), v * v, v * v)

in_shadow_AnyHit(objs, light, point, xs) ==
    Only({[shadowed |-> h.result # NONE, intersections |-> h.intersections] :
             h \in {consuming_hit(intersect(objs, ShadowRay(light, point), xs))}})

in_shadow_KeepsBuffer(objs, light, point, xs) ==
    LET v == light.y - point
        r == ShadowRay(light, point)
        distance == IF v = 0 THEN T(0) ELSE [num |-> Abs(v), p |-> r.p, q |-> r.q]
    IN  Only({[shadowed |-> IF h.result = NONE THEN FALSE
                            ELSE TLt(h.result.t, distance),
               intersections |-> h.intersections] :
                 h \in {hit(intersect(objs, r, xs))}})

\* World::in_shadow.  t < distance is kept as t * |direction.y| <
\* distance * |direction.y|: both carry the p/q of the shadow ray.
in_shadow(objs, light, point, xs) ==
    LET v == light.y - point
        r == ShadowRay(light, point)
        distance == IF v = 0 THEN T(0) ELSE [num |-> Abs(v), p |-> r.p, q |-> r.q]
    IN  Only({[shadowed |-> IF h.result = NONE THEN FALSE
                            ELSE TLt(h.result.t, distance),
               intersections |-> h.intersections] :
                 h \in {consuming_hit(intersect(objs, r, xs))}})

lighting_SpecularAlways(m, light, point, eyev, normalv, shadowed, use_ambient) ==
    LET effective_color == m.color * light.intensity
        lightv == Sgn(light.y - point)
        ambient == IF use_ambient THEN effective_color * m.ambient ELSE BLACK
        light_dot_normal == lightv * normalv
        diffuse == IF light_dot_normal < 0 THEN BLACK
                   ELSE effective_color * m.diffuse * light_dot_normal
        specular == IF light_dot_normal < 0 THEN BLACK
                    ELSE light.intensity * m.specular
    IN  IF shadowed THEN ambient ELSE ambient + diffuse + specular

\* Material::lighting on a plain colour.  Light, point, normal and eye lie
\* on one axis wherever diffuse or specular is not 0, so every cosine is
\* 1, 0 or -1, reflectv is lightv and the shininess power keeps the 1.
lighting(m, light, point, eyev, normalv, shadowed, use_ambient) ==
    LET effective_color == m.color * light.intensity
        lightv == Sgn(light.y - point)
        ambient == IF use_ambient THEN effective_color * m.ambient ELSE BLACK
        light_dot_normal == lightv * normalv
        reflect_dot_eye == lightv * eyev.dy
        diffuse == IF light_dot_normal < 0 THEN BLACK
                   ELSE effective_color * m.diffuse * light_dot_normal
        specular == IF light_dot_normal < 0 \/ reflect_dot_eye <= 0 THEN BLACK
                    ELSE light.intensity * m.specular
    IN  IF shadowed THEN ambient ELSE ambient + diffuse + specular

render_at_AmbientAlways(objs, comps, light, shadowed, ambient) ==
    lighting(objs[comps.object], light, comps.over_point, comps.eyev,
             comps.normalv, shadowed, TRUE)

\* Shape::render_at
render_at(objs, comps, light, shadowed, ambient) ==
    lighting(objs[comps.object], light, comps.over_point, comps.eyev,
             comps.normalv, shadowed, ambient)

\* The loop over self.lights of World::shade_hit, from light k on; every
\* in_shadow call finds the Vec as the call before left it.
RECURSIVE LightLoop(_, _, _, _, _, _, _)
LightLoop(objs, ls, comps, k, surface, ambient, xs) ==
    IF k > Len(ls) THEN surface
    ELSE Only({LightLoop(objs, ls, comps, k + 1,
                         surface + render_at(objs, comps, ls[k], s.shadowed, ambient),
                         FALSE, s.intersections) :
                 s \in {in_shadow(objs, ls[k], comps.over_point, xs)}})

----------------------------------------------------------------------------
(* Reflection and refraction: what each does before its color_at call *)

\* f64::e_equals(0.0) on a coefficient that is a whole number
EEqualsZero(x) == x = 0

reflected_color_at_NoBudgetCheck(objs, comps, remaining_recursion) ==
    IF EEqualsZero(objs[comps.object].reflective)
    THEN [call |-> FALSE, color |-> BLACK]
    ELSE [call |-> TRUE,
          ray |-> Ray(comps.over_point, comps.reflectv.dy,
                      comps.reflectv.p, comps.reflectv.q),
          minuend |-> remaining_recursion,
          factor |-> objs[comps.object].reflective]

reflected_color_at_SameBudget(objs, comps, remaining_recursion) ==
    IF remaining_recursion = 0 THEN [call |-> FALSE, color |-> BLACK]
    ELSE IF EEqualsZero(objs[comps.object].reflective)
    THEN [call |-> FALSE, color |-> BLACK]
    ELSE [call |-> TRUE,
          ray |-> Ray(comps.over_point, comps.reflectv.dy,
                      comps.reflectv.p, comps.reflectv.q),
          minuend |-> remaining_recursion + 1,
          factor |-> objs[comps.object].reflective]

reflected_color_at_Unscaled(objs, comps, remaining_recursion) ==
    IF remaining_recursion = 0 THEN [call |-> FALSE, color |-> BLACK]
    ELSE IF EEqualsZero(objs[comps.object].reflective)
    THEN [call |-> FALSE, color |-> BLACK]
    ELSE [call |-> TRUE,
          ray |-> Ray(comps.over_point, comps.reflectv.dy,
                      comps.reflectv.p, comps.reflectv.q),
          minuend |-> remaining_recursion,
          factor |-> 1]

\* World::reflected_color_at up to its color_at call: the colour it returns
\* at once, or the ray, the budget it subtracts 1 from and the factor.
reflected_color_at(objs, comps, remaining_recursion) ==
    IF remaining_recursion = 0 THEN [call |-> FALSE, color |-> BLACK]
    ELSE IF EEqualsZero(objs[comps.object].reflective)
    THEN [call |-> FALSE, color |-> BLACK]
    ELSE [call |-> TRUE,
          ray |-> Ray(comps.over_point, comps.reflectv.dy,
                      comps.reflectv.p, comps.reflectv.q),
          minuend |-> remaining_recursion,
          factor |-> objs[comps.object].reflective]

refracted_color_at_IgnoresBudget(objs, comps, remaining_recursion) ==
    LET p == comps.eyev.p
        q == comps.eyev.q
        sin2_num == comps.n1 * comps.n1 * (q - p)
        sin2_den == comps.n2 * comps.n2 * q
    IN  IF objs[comps.object].transparency = 0
        THEN [call |-> FALSE, color |-> BLACK]
        ELSE IF sin2_num > sin2_den THEN [call |-> FALSE, color |-> BLACK]
        ELSE [call |-> TRUE,
              ray |-> Ray(comps.under_point, -comps.normalv,
                          sin2_den - sin2_num, sin2_den),
              minuend |-> remaining_recursion + 1,
              factor |-> objs[comps.object].transparency]

refracted_color_at_NoTotalReflection(objs, comps, remaining_recursion) ==
    LET p == comps.eyev.p
        q == comps.eyev.q
        sin2_num == comps.n1 * comps.n1 * (q - p)
        sin2_den == comps.n2 * comps.n2 * q
    IN  IF remaining_recursion = 0 THEN [call |-> FALSE, color |-> BLACK]
        ELSE IF objs[comps.object].transparency = 0
        THEN [call |-> FALSE, color |-> BLACK]
        ELSE [call |-> TRUE,
              ray |-> Ray(comps.under_point, -comps.normalv,
                          Abs(sin2_den - sin2_num), sin2_den),
              minuend |-> remaining_recursion,
              factor |-> objs[comps.object].transparency]

\* World::refracted_color_at up to its color_at call.  cos_i = eyev.normalv
\* has cos_i^2 = p/q; sin2_t = (n1/n2)^2 * (1 - cos_i^2); the refracted
\* direction has direction.y = -normalv * cos_t, cos_t^2 = 1 - sin2_t.
refracted_color_at(objs, comps, remaining_recursion) ==
    LET p == comps.eyev.p
        q == comps.eyev.q
        sin2_num == comps.n1 * comps.n1 * (q - p)
        sin2_den == comps.n2 * comps.n2 * q
    IN  IF remaining_recursion = 0 THEN [call |-> FALSE, color |-> BLACK]
        ELSE IF objs[comps.object].transparency = 0
        THEN [call |-> FALSE, color |-> BLACK]
        ELSE IF sin2_num > sin2_den THEN [call |-> FALSE, color |-> BLACK]
        ELSE [call |-> TRUE,
              ray |-> Ray(comps.under_point, -comps.normalv,
                          sin2_den - sin2_num, sin2_den),
              minuend |-> remaining_recursion,
              factor |-> objs[comps.object].transparency]

----------------------------------------------------------------------------
(* Shapes used by the model *)

\* Material::new on a Plane / Sphere with the given fields; diffuse and
\* specular are set to 0 so that a surface shows its ambient term only.
Shape(kind, ty, color, reflective, transparency, refractive_index) ==
    [kind |-> kind, ty |-> ty, tx |-> 0, scale |-> 1, color |-> color,
     ambient |-> 1,
     diffuse |-> 0, specular |-> 0, reflective |-> reflective,
     transparency |-> transparency, refractive_index |-> refractive_index]

\* refraction_intersections: three glass spheres of index 1.5, 2.0, 2.5
\* (the transforms differ: scaling 2, translation -0.25, translation 0.25).
GlassSpheres ==
    << Shape("sphere", 0, 1, 0, 1, 3),
       Shape("sphere", -1, 1, 0, 1, 4),
       Shape("sphere", 1, 1, 0, 1, 5) >>

\* t = 2, 2.75, 3.25, 4.75, 5.25, 6 on the ray of direction (0, 0, 0.25),
\* counted in quarters.
GlassSpheresXs ==
    << [t |-> T(8), object |-> 1], [t |-> T(11), object |-> 2],
       [t |-> T(13), object |-> 3], [t |-> T(19), object |-> 2],
       [t |-> T(21), object |-> 3], [t |-> T(24), object |-> 1] >>

\* Two different shapes and a third one that differs from the second in its
\* refractive index only.
HarnessShapes ==
    << Shape("sphere", 0, 1, 0, 1, 3),
       Shape("plane", 0, 2, 0, 1, 4),
       Shape("plane", 0, 2, 0, 1, 5) >>

\* The values of t the harness draws from: -1, 0, 1, 2 and 2 once more as
\* 1 / sqrt(1/4).
HarnessTs == {T(n) : n \in -1..2} \cup {[num |-> 1, p |-> 1, q |-> 4]}

SeqsUpTo(S, n) == UNION {[1..k -> S] : k \in 0..n}

\* xs is sorted ascending by t, as World::intersect leaves it.
IsSorted(xs) == \A k \in 1..(Len(xs) - 1) : ~TLt(xs[k + 1].t, xs[k].t)

----------------------------------------------------------------------------
(* Harness: the operations of intersection.rs applied to drawn inputs *)

MachineIdle ==
    /\ objects = <<>>
    /\ lights = <<>>
    /\ camera = [hsize |-> 0, vsize |-> 0, ty |-> 0]
    /\ budget = 0
    /\ pc = "idle"
    /\ px = 0
    /\ py = 0
    /\ image = <<>>
    /\ writes = <<>>
    /\ intersections = <<>>
    /\ stack = <<>>
    /\ rows = <<>>
    /\ cur = 0
    /\ canvas = <<>>
    /\ aborted = ""

HarnessInit ==
    /\ MachineIdle
    /\ \/ /\ hobjs = HarnessShapes
          /\ hxs \in SeqsUpTo([t : HarnessTs, object : 1..Len(HarnessShapes)], MaxLen)
       \/ /\ hobjs = GlassSpheres
          /\ hxs = GlassSpheresXs
    /\ hsel = 0
    /\ hout = [op |-> "none"]
    /\ setup = Constructed(IDENTITY_MATRIX_4)

HarnessHit ==
    /\ hout.op = "none"
    /\ LET r == hit(hxs)
       IN  hout' = [op |-> "hit", result |-> r.result,
                    intersections |-> r.intersections]
    /\ UNCHANGED << hxs, hobjs, hsel, setup >>
    /\ UNCHANGED machineVars

HarnessConsumingHit ==
    /\ hout.op = "none"
    /\ LET r == consuming_hit(hxs)
       IN  hout' = [op |-> "consuming_hit", result |-> r.result,
                    intersections |-> r.intersections]
    /\ UNCHANGED << hxs, hobjs, hsel, setup >>
    /\ UNCHANGED machineVars

\* prepare_computations of the chosen intersection hxs[k] over the sorted hxs.
HarnessPrepare ==
    /\ hout.op = "none"
    /\ IsSorted(hxs)
    /\ \E k \in 1..Len(hxs) :
          /\ hsel' = k
          /\ LET n == compute_n1_n2(hobjs, hxs[k], hxs)
             IN  hout' = [op |-> "prepare_computations", n1 |-> n.n1, n2 |-> n.n2]
    /\ UNCHANGED << hxs, hobjs, setup >>
    /\ UNCHANGED machineVars

HarnessNext == HarnessHit \/ HarnessConsumingHit \/ HarnessPrepare

SpecHarness == HarnessInit /\ [][HarnessNext]_vars

----------------------------------------------------------------------------
(* Worlds and cameras of the machine *)

Mirror(ty) == Shape("plane", ty, 1, 1, 0, VACUUM)
Glass(ty) == Shape("plane", ty, 2, 0, 1, 4)
Matte(ty) == Shape("plane", ty, 4, 0, 0, VACUUM)
GlassMirror(ty) == Shape("plane", ty, 8, 1, 1, 3)

\* PointLight::new
PointLight(y, intensity) == [y |-> y, intensity |-> intensity]

\* World::default followed by add_object / add_light calls.
Worlds ==
    { \* world_tests::infinite_recursion: two facing mirrors
      [objects |-> << Mirror(-4), Mirror(4) >>,
       lights |-> << PointLight(0, 1) >>],
      \* a pane of glass of transparency 3.0 above a matte floor, both
      \* below the camera
      [objects |-> << [Glass(-4) EXCEPT !.transparency = 3], Matte(-8) >>,
       lights |-> << PointLight(2, 1) >>],
      \* a reflective pane above the camera, a mirror below, two lights
      [objects |-> << GlassMirror(4), Mirror(-4) >>,
       lights |-> << PointLight(2, 1), PointLight(-6, 2) >>],
      \* two panes and a floor, no light
      [objects |-> << Glass(4), Glass(8), Matte(12) >>,
       lights |-> << >>],
      \* nothing to hit
      [objects |-> << >>,
       lights |-> << PointLight(2, 1) >>] }

Pixels(c) == (0..(c.hsize - 1)) \X (0..(c.vsize - 1))

\* Camera::ray_for_pixel for field_of_view = pi/2 and a transform that is a
\* translation along y: with D = max(hsize, vsize), world_x = X/D and
\* world_y = Y/D, and the direction is (X, Y, -D) normalized.
ray_for_pixel(c, x, y) ==
    LET X == c.hsize - 2 * x - 1
        Y == c.vsize - 2 * y - 1
        D == IF c.hsize >= c.vsize THEN c.hsize ELSE c.vsize
    IN  Ray(c.ty, Sgn(Y), Y * Y, X * X + Y * Y + D * D)

\* Canvas::new
NewCanvas(c) == [xy \in Pixels(c) |-> BLACK]

\* Canvas::check_coordinates
check_coordinates(c, x, y) == ~(x >= c.hsize \/ y >= c.vsize)

----------------------------------------------------------------------------
(* The machine: Camera::render, then Camera::par_render, of one world *)

Init ==
    /\ \E w \in Worlds : objects = w.objects /\ lights = w.lights
    /\ \E h \in 1..MaxSize, v \in 1..MaxSize :
          camera = [hsize |-> h, vsize |-> v, ty |-> 0]
    /\ budget \in 0..MaxRecursion
    /\ pc = "render"
    /\ px = 0
    /\ py = 0
    /\ image = NewCanvas(camera)
    /\ writes = [xy \in Pixels(camera) |-> 0]
    /\ intersections = <<>>
    /\ stack = <<>>
    /\ rows = [y \in 0..(camera.vsize - 1) |-> <<>>]
    /\ cur = -1
    /\ canvas = NewCanvas(camera)
    /\ aborted = ""
    /\ hxs = <<>>
    /\ hobjs = <<>>
    /\ hsel = 0
    /\ hout = [op |-> "none"]
    /\ setup = Constructed(IDENTITY_MATRIX_4)

\* An activation of World::color_at, with the shade_hit it may call.
\* The activation record of one color_at call and of the shade_hit it makes.
\* invocations is history, not state of the program: the number of color_at
\* calls made so far on behalf of this one, this one included.
Frame(ray, xs, remaining_recursion) ==
    [at |-> "intersect", ray |-> ray, intersections |-> xs,
     remaining_recursion |-> remaining_recursion, comps |-> NONE,
     light |-> 1, ambient |-> TRUE, in_shadow |-> FALSE, surface |-> BLACK,
     reflected |-> BLACK, refracted |-> BLACK, factor |-> 0,
     invocations |-> 1]

Top == stack[Len(stack)]
Running == aborted = "" /\ stack # <<>>
SetTop(f) == [stack EXCEPT ![Len(stack)] = f]

\* Camera::render: the body of the pixel loop up to the color_at call.
RenderPixel ==
    /\ aborted = "" /\ pc = "render" /\ stack = <<>>
    /\ py < camera.vsize
    /\ stack' = << Frame(ray_for_pixel(camera, px, py), intersections, budget) >>
    /\ UNCHANGED << objects, lights, camera, budget, pc, px, py, image, writes,
                    intersections, rows, cur, canvas, aborted >>
    /\ UNCHANGED harnessVars

\* Camera::render: Ok(image); par_render of the same world follows.
RenderDone ==
    /\ aborted = "" /\ pc = "render" /\ stack = <<>>
    /\ py = camera.vsize
    /\ pc' = "par_render"
    /\ UNCHANGED << objects, lights, camera, budget, px, py, image, writes,
                    intersections, stack, rows, cur, canvas, aborted >>
    /\ UNCHANGED harnessVars

\* Camera::render_row of some row y: the next pixel up to its color_at call,
\* which gets a Vec of its own.  Rows are taken up in any order.
RenderRowPixel ==
    /\ aborted = "" /\ pc = "par_render" /\ stack = <<>>
    /\ \E y \in 0..(camera.vsize - 1) :
          /\ Len(rows[y]) < camera.hsize
          /\ cur' = y
          /\ stack' = << Frame(ray_for_pixel(camera, Len(rows[y]), y), <<>>, budget) >>
    /\ UNCHANGED << objects, lights, camera, budget, pc, px, py, image, writes,
                    intersections, rows, canvas, aborted >>
    /\ UNCHANGED harnessVars

\* Camera::par_render once every row is collected: the canvas is written
\* row by row, column by column.
ParRenderDone ==
    /\ aborted = "" /\ pc = "par_render" /\ stack = <<>>
    /\ \A y \in 0..(camera.vsize - 1) : Len(rows[y]) = camera.hsize
    /\ IF \A xy \in Pixels(camera) : check_coordinates(camera, xy[1], xy[2])
       THEN /\ canvas' = [xy \in Pixels(camera) |-> rows[xy[2]][xy[1] + 1]]
            /\ pc' = "done"
            /\ UNCHANGED aborted
       ELSE /\ aborted' = "CanvasError"
            /\ UNCHANGED << canvas, pc >>
    /\ UNCHANGED << objects, lights, camera, budget, px, py, image, writes,
                    intersections, stack, rows, cur >>
    /\ UNCHANGED harnessVars

\* The caller of a color_at that returned color, leaving xs in its Vec.
\* Under a reflected_color_at / refracted_color_at: the colour is scaled
\* and shade_hit goes on.  Under render: write_pixel(x, y, color)? and the
\* next pixel; the Vec is render's.  Under render_row: vec.push(color).
\* Under a caller that holds a ray of its own, as the tests of world.rs
\* do: the colour and the Vec are the caller's.
Deliver(color, xs) ==
    IF Len(stack) > 1
    THEN LET caller == stack[Len(stack) - 1]
             f == IF caller.at = "reflect_wait"
                  THEN [caller EXCEPT !.reflected = color * caller.factor,
                                      !.at = "refracted_color_at",
                                      !.invocations = @ + Top.invocations]
                  ELSE [caller EXCEPT !.refracted = color * caller.factor,
                                      !.at = "return",
                                      !.invocations = @ + Top.invocations]
         IN  /\ stack' = Append(SubSeq(stack, 1, Len(stack) - 2), f)
             /\ UNCHANGED << pc, px, py, image, writes, intersections, rows,
                             cur, canvas, aborted >>
             /\ UNCHANGED harnessVars
    ELSE IF pc = "color_at"
    THEN /\ stack' = <<>>
         /\ intersections' = xs
         /\ pc' = "returned"
         /\ hout' = [op |-> "color_at", color |-> color,
                      invocations |-> Top.invocations]
         /\ UNCHANGED << px, py, image, writes, rows, cur, canvas, aborted,
                         hxs, hobjs, hsel, setup >>
    ELSE IF pc = "render"
    THEN /\ stack' = <<>>
         /\ intersections' = xs
         /\ IF check_coordinates(camera, px, py)
            THEN /\ image' = [image EXCEPT ![<< px, py >>] = color]
                 /\ writes' = [writes EXCEPT ![<< px, py >>] = @ + 1]
                 /\ px' = IF px + 1 < camera.hsize THEN px + 1 ELSE 0
                 /\ py' = IF px + 1 < camera.hsize THEN py ELSE py + 1
                 /\ UNCHANGED aborted
            ELSE /\ aborted' = "CanvasError"
                 /\ UNCHANGED << image, writes, px, py >>
         /\ UNCHANGED << pc, rows, cur, canvas >>
         /\ UNCHANGED harnessVars
    ELSE /\ stack' = <<>>
         /\ rows' = [rows EXCEPT ![cur] = Append(@, color)]
         /\ cur' = -1
         /\ UNCHANGED << pc, px, py, image, writes, intersections, canvas,
                         aborted >>
         /\ UNCHANGED harnessVars

\* color_at: self.intersect(r, intersections)
ColorAtIntersect ==
    /\ Running /\ Top.at = "intersect"
    /\ IF intersect_panics(objects, Top.ray, Top.intersections)
       THEN /\ aborted' = "called Option::unwrap() on a None value"
            /\ UNCHANGED stack
       ELSE /\ stack' = SetTop([Top EXCEPT
                          !.intersections = intersect(objects, Top.ray,
                                                      Top.intersections),
                          !.at = "hit"])
            /\ UNCHANGED aborted
    /\ UNCHANGED << objects, lights, camera, budget, pc, px, py, image, writes,
                    intersections, rows, cur, canvas >>
    /\ UNCHANGED harnessVars

\* color_at: hit(intersections) is Some(h): prepare_computations over the
\* collection, intersections.clear(), and shade_hit begins.
ColorAtHit ==
    /\ Running /\ Top.at = "hit"
    /\ \E h \in {hit(Top.intersections).result} :
          /\ h # NONE
          /\ stack' = SetTop([Top EXCEPT
                         !.comps = prepare_computations(objects, h, Top.ray,
                                                        Top.intersections),
                         !.intersections = <<>>,
                         !.at = "shade_hit"])
    /\ UNCHANGED << objects, lights, camera, budget, pc, px, py, image, writes,
                    intersections, rows, cur, canvas, aborted >>
    /\ UNCHANGED harnessVars

\* color_at: hit(intersections) is None: BLACK is returned.
ColorAtMiss ==
    /\ Running /\ Top.at = "hit"
    /\ hit(Top.intersections).result = NONE
    /\ Deliver(BLACK, Top.intersections)
    /\ UNCHANGED << objects, lights, camera, budget >>

\* shade_hit: one turn of the loop over the lights.
ShadeHitLight ==
    /\ Running /\ Top.at = "shade_hit"
    /\ Top.light <= Len(lights)
    /\ \E light \in {lights[Top.light]} :
       IF intersect_panics(objects, ShadowRay(light, Top.comps.over_point),
                           Top.intersections)
       THEN /\ aborted' = "called Option::unwrap() on a None value"
            /\ UNCHANGED stack
       ELSE /\ \E s \in {in_shadow(objects, light, Top.comps.over_point,
                                    Top.intersections)} :
                  stack' = SetTop([Top EXCEPT
                             !.in_shadow = s.shadowed,
                             !.surface = @ + render_at(objects, Top.comps, light,
                                                       s.shadowed, Top.ambient),
                             !.intersections = s.intersections,
                             !.ambient = FALSE,
                             !.light = @ + 1])
            /\ UNCHANGED aborted
    /\ UNCHANGED << objects, lights, camera, budget, pc, px, py, image, writes,
                    intersections, rows, cur, canvas >>
    /\ UNCHANGED harnessVars

\* The color_at call of reflected_color_at / refracted_color_at, on a Vec of
\* its own with budget minuend - 1; usize subtraction and the stack are
\* finite.
Call(r, waiting, next) ==
    IF ~r.call
    THEN /\ stack' = SetTop(IF next = "refracted_color_at"
                            THEN [Top EXCEPT !.reflected = r.color, !.at = next]
                            ELSE [Top EXCEPT !.refracted = r.color, !.at = next])
         /\ UNCHANGED aborted
    ELSE IF r.minuend = 0
    THEN /\ aborted' = "attempt to subtract with overflow"
         /\ UNCHANGED stack
    ELSE IF Len(stack) >= StackLimit
    THEN /\ aborted' = "stack overflow"
         /\ UNCHANGED stack
    ELSE /\ stack' = Append(SetTop([Top EXCEPT !.at = waiting, !.factor = r.factor]),
                            Frame(r.ray, <<>>, r.minuend - 1))
         /\ UNCHANGED aborted

\* shade_hit: self.reflected_color_at(comps, remaining_recursion)
ReflectedColorAt ==
    /\ Running /\ Top.at = "shade_hit"
    /\ Top.light > Len(lights)
    /\ Call(reflected_color_at(objects, Top.comps, Top.remaining_recursion),
            "reflect_wait", "refracted_color_at")
    /\ UNCHANGED << objects, lights, camera, budget, pc, px, py, image, writes,
                    intersections, rows, cur, canvas >>
    /\ UNCHANGED harnessVars

\* shade_hit: self.refracted_color_at(comps, remaining_recursion)
RefractedColorAt ==
    /\ Running /\ Top.at = "refracted_color_at"
    /\ Call(refracted_color_at(objects, Top.comps, Top.remaining_recursion),
            "refract_wait", "return")
    /\ UNCHANGED << objects, lights, camera, budget, pc, px, py, image, writes,
                    intersections, rows, cur, canvas >>
    /\ UNCHANGED harnessVars

ShadeHitReturn_SurfaceOnly ==
    /\ Running /\ Top.at = "return"
    /\ Deliver(Top.surface, Top.intersections)
    /\ UNCHANGED << objects, lights, camera, budget >>

\* shade_hit: surface + reflected + refracted, returned through color_at.
ShadeHitReturn ==
    /\ Running /\ Top.at = "return"
    /\ Deliver(Top.surface + Top.reflected + Top.refracted, Top.intersections)
    /\ UNCHANGED << objects, lights, camera, budget >>

Next ==
    \/ RenderPixel
    \/ RenderDone
    \/ RenderRowPixel
    \/ ParRenderDone
    \/ ColorAtIntersect
    \/ ColorAtHit
    \/ ColorAtMiss
    \/ ShadeHitLight
    \/ ReflectedColorAt
    \/ RefractedColorAt
    \/ ShadeHitReturn

Spec == Init /\ [][Next]_vars

\* Nothing but the program's own steps can hold a running render up.
FairSpec == Spec /\ WF_vars(Next)

----------------------------------------------------------------------------
(* color_at on a ray along the y axis, lights and sphere centres on or    *)
(* beside that axis: every cosine of the lighting is 1, 0 or -1, so       *)
(* diffuse and specular terms are exact too.                              *)

\* a plane or sphere whose material has the given diffuse and specular
Lit(kind, ty, color, diffuse, specular) ==
    [Shape(kind, ty, color, 0, 0, VACUUM) EXCEPT
        !.diffuse = diffuse, !.specular = specular]

\* a sphere of radius scale whose centre is at (tx, ty, 0)
Ball(tx, ty, scale, color) ==
    [Lit("sphere", ty, color, 1, 1) EXCEPT !.tx = tx, !.scale = scale]

AxisWorlds ==
    { \* a floor under a ceiling, a light between them and one above
      [objects |-> << Lit("plane", 0, 4, 1, 1), Lit("plane", 8, 2, 1, 0) >>,
       lights |-> << PointLight(4, 1), PointLight(12, 2) >>],
      \* the same with the lights in the other order
      [objects |-> << Lit("plane", 0, 4, 1, 1), Lit("plane", 8, 2, 1, 0) >>,
       lights |-> << PointLight(12, 2), PointLight(4, 1) >>],
      \* a light in the plane of the ceiling, a light EPSILON over the floor
      [objects |-> << Lit("plane", 0, 4, 1, 1), Lit("plane", 8, 2, 1, 0) >>,
       lights |-> << PointLight(8, 1), PointLight(1, 1) >>],
      \* a ball on the axis, a ball beside it, lights above, below and
      \* EPSILON over the ball
      [objects |-> << Ball(0, 0, 5, 4), Ball(6, 0, 5, 2) >>,
       lights |-> << PointLight(20, 1), PointLight(-20, 2), PointLight(6, 1) >>],
      \* a mirror of reflective 2.0 over a pane of glass of transparency
      \* 3.0 over a lit floor
      [objects |-> << [Mirror(8) EXCEPT !.reflective = 2],
                      [Glass(0) EXCEPT !.transparency = 3],
                      Lit("plane", -8, 4, 1, 1) >>,
       lights |-> << PointLight(4, 1), PointLight(-4, 2) >>],
      \* a pane of reflective 2.0 and transparency 3.0 between a lit floor
      \* and a lit ceiling
      [objects |-> << [GlassMirror(0) EXCEPT !.reflective = 2,
                                             !.transparency = 3],
                      Lit("plane", 8, 4, 1, 1), Lit("plane", -8, 2, 1, 0) >>,
       lights |-> << PointLight(4, 1) >>],
      \* a ball that no ray along the axis meets, no light
      [objects |-> << Ball(6, 0, 5, 2) >>,
       lights |-> << >>] }

AxisOrigins == {-12, -2, 2, 10}

\* let color = w.color_at(&r, &mut Vec::new(), budget)
ColorAtInit ==
    /\ \E w \in AxisWorlds : objects = w.objects /\ lights = w.lights
    /\ camera = [hsize |-> 0, vsize |-> 0, ty |-> 0]
    /\ budget \in 0..MaxRecursion
    /\ pc = "color_at"
    /\ px = 0
    /\ py = 0
    /\ image = <<>>
    /\ writes = <<>>
    /\ intersections = <<>>
    /\ \E oy \in AxisOrigins, dy \in {-1, 1} :
          stack = << Frame(Ray(oy, dy, 1, 1), <<>>, budget) >>
    /\ rows = <<>>
    /\ cur = 0
    /\ canvas = <<>>
    /\ aborted = ""
    /\ hxs = <<>>
    /\ hobjs = <<>>
    /\ hsel = 0
    /\ hout = [op |-> "none"]
    /\ setup = Constructed(IDENTITY_MATRIX_4)

ColorAtNext ==
    \/ ColorAtIntersect
    \/ ColorAtHit
    \/ ColorAtMiss
    \/ ShadeHitLight
    \/ ReflectedColorAt
    \/ RefractedColorAt
    \/ ShadeHitReturn

SpecColorAt == ColorAtInit /\ [][ColorAtNext]_vars

----------------------------------------------------------------------------
(* Shape::intersect of one shape, on a Vec that holds intersections already *)

\* a plane, a ball the axis goes through, a ball it touches, a ball it misses
IntersectShapes ==
    << Lit("plane", 4, 1, 1, 1), Ball(0, 0, 5, 1), Ball(5, 2, 5, 1),
       Ball(6, 0, 5, 1) >>

\* rays along the axis, a ray along the plane, a ray of NaN direction
IntersectRays ==
    {Ray(oy, dy, 1, 1) : oy \in {-12, 2}, dy \in {-1, 1}}
        \cup {Ray(2, 0, 0, 1), Ray(2, 0, 0, 0)}

IntersectInit ==
    /\ MachineIdle
    /\ hobjs = IntersectShapes
    /\ hxs \in SeqsUpTo([t : {T(2), T(-1)}, object : {1, 2}], MaxLen)
    /\ hsel = 0
    /\ hout = [op |-> "none"]
    /\ setup = Constructed(IDENTITY_MATRIX_4)

\* shape.intersect(&ray, &mut intersections); a sphere is given rays along
\* the axis only
HarnessShapeIntersect ==
    /\ hout.op = "none"
    /\ \E o \in 1..Len(hobjs), ray \in IntersectRays :
          /\ hobjs[o].kind = "sphere" => (ray.p = ray.q)
          /\ hsel' = o
          /\ hout' = [op |-> "intersect", ray |-> ray,
                      intersections |-> ShapeIntersect(hobjs, o, ray, hxs)]
    /\ UNCHANGED << hxs, hobjs, setup >>
    /\ UNCHANGED machineVars

SpecIntersect == IntersectInit /\ [][HarnessShapeIntersect]_vars

----------------------------------------------------------------------------
(* World::intersect of a whole world, on an empty Vec *)

\* two planes in one place, a ball whose top touches them, a ball beside
\* the axis
WorldShapes ==
    { Lit("plane", 4, 1, 1, 1), Lit("plane", 4, 2, 1, 1), Ball(0, -1, 5, 1),
      Ball(6, 0, 5, 1) }

\* let mut w = World::default(); w.add_object(..) up to MaxLen times
WorldIntersectInit ==
    /\ MachineIdle
    /\ hobjs \in SeqsUpTo(WorldShapes, MaxLen)
    /\ hxs = <<>>
    /\ hsel = 0
    /\ hout = [op |-> "none"]
    /\ setup = Constructed(IDENTITY_MATRIX_4)

\* w.intersect(&ray, &mut Vec::new()); a world with a sphere is given rays
\* along the axis only
HarnessWorldIntersect ==
    /\ hout.op = "none"
    /\ \E ray \in IntersectRays :
          /\ (\E o \in 1..Len(hobjs) : hobjs[o].kind = "sphere") => (ray.p = ray.q)
          /\ hout' = IF intersect_panics(hobjs, ray, hxs)
                     THEN [op |-> "intersect", ray |-> ray,
                           panic |-> "called Option::unwrap() on a None value"]
                     ELSE [op |-> "intersect", ray |-> ray, panic |-> "",
                           intersections |-> intersect(hobjs, ray, hxs)]
    /\ UNCHANGED << hxs, hobjs, hsel, setup >>
    /\ UNCHANGED machineVars

SpecWorldIntersect == WorldIntersectInit /\ [][HarnessWorldIntersect]_vars

\* let comps = xs[k].prepare_computations(&ray, &xs) for an element xs[k] of
\* the collection that w.intersect has filled; hit says whether it is the
\* element hit(&xs) returns, the one color_at prepares
HarnessPrepareElement ==
    /\ hout.op = "intersect"
    /\ hout.panic = ""
    /\ \E k \in 1..Len(hout.intersections) :
          /\ hsel' = k
          /\ LET xs == hout.intersections
                 n == compute_n1_n2(hobjs, xs[k], xs)
             IN  hout' = [op |-> "prepare_computations", ray |-> hout.ray,
                          intersections |-> xs,
                          hit |-> (hit(xs).result = xs[k]),
                          n1 |-> n.n1, n2 |-> n.n2]
    /\ UNCHANGED << hxs, hobjs, setup >>
    /\ UNCHANGED machineVars

SpecPrepare ==
    WorldIntersectInit /\ [][HarnessWorldIntersect \/ HarnessPrepareElement]_vars

----------------------------------------------------------------------------
(* Material::lighting on its own *)

\* materials with and without each of the three terms
LightingMaterials ==
    { [Lit("plane", 0, 3, d, sp) EXCEPT !.ambient = a] :
        a \in {0, 1}, d \in {0, 2}, sp \in {0, 5} }

\* light, point, eye and normal on one axis, the light not at the point
LightingArguments ==
    [light : {PointLight(y, i) : y \in {-3, 3}, i \in {1, 2}},
     point : {0},
     eyev : {[dy |-> d, p |-> 1, q |-> 1] : d \in {-1, 1}},
     normalv : {-1, 1},
     in_shadow : BOOLEAN,
     use_ambient : BOOLEAN]

LightingInit ==
    /\ MachineIdle
    /\ \E m \in LightingMaterials : hobjs = << m >>
    /\ \E a \in LightingArguments : hxs = << a >>
    /\ hsel = 0
    /\ hout = [op |-> "none"]
    /\ setup = Constructed(IDENTITY_MATRIX_4)

\* m.lighting(&light, &object, point, eyev, normalv, in_shadow, use_ambient)
HarnessLighting ==
    /\ hout.op = "none"
    /\ LET a == hxs[1]
       IN  hout' = [op |-> "lighting",
                    color |-> lighting(hobjs[1], a.light, a.point, a.eyev,
                                       a.normalv, a.in_shadow, a.use_ambient)]
    /\ UNCHANGED << hxs, hobjs, hsel, setup >>
    /\ UNCHANGED machineVars

SpecLighting == LightingInit /\ [][HarnessLighting]_vars

----------------------------------------------------------------------------
(* The Canvas on its own: write_pixel and pixel_at with any coordinates *)

\* Canvas::new: height rows of width pixels of BASE_COLOR
CanvasNew(width, height) ==
    [canvas |-> [j \in 1..height |-> [i \in 1..width |-> BLACK]],
     width |-> width, height |-> height]

\* Canvas::check_coordinates on the Canvas itself
CanvasCheckCoordinates(cv, x, y) == ~(x >= cv.width \/ y >= cv.height)

\* Canvas::pixel_at: self.canvas[y][x]
pixel_at(cv, x, y) ==
    IF ~CanvasCheckCoordinates(cv, x, y)
    THEN [result |-> "InvalidCoordinates"]
    ELSE [result |-> "Ok", color |-> cv.canvas[y + 1][x + 1]]

write_pixel_Clamps(cv, x, y, color) ==
    IF cv.width = 0 \/ cv.height = 0
    THEN [result |-> "InvalidCoordinates", canvas |-> cv]
    ELSE LET i == IF x >= cv.width THEN cv.width ELSE x + 1
             j == IF y >= cv.height THEN cv.height ELSE y + 1
         IN  [result |-> "Ok",
              canvas |-> [cv EXCEPT !.canvas[j][i] = color]]

\* Canvas::write_pixel: self.canvas[y][x] = color
write_pixel(cv, x, y, color) ==
    IF ~CanvasCheckCoordinates(cv, x, y)
    THEN [result |-> "InvalidCoordinates", canvas |-> cv]
    ELSE [result |-> "Ok",
          canvas |-> [cv EXCEPT !.canvas[y + 1][x + 1] = color]]

\* coordinates inside the largest canvas and one beyond it
CanvasCoordinates == 0..MaxSize

\* let mut c = Canvas::new(width, height), held in image
CanvasInit ==
    /\ objects = <<>>
    /\ lights = <<>>
    /\ camera = [hsize |-> 0, vsize |-> 0, ty |-> 0]
    /\ budget = 0
    /\ pc = "idle"
    /\ px = 0
    /\ py = 0
    /\ \E width \in 0..MaxSize, height \in 0..MaxSize :
          image = CanvasNew(width, height)
    /\ writes = <<>>
    /\ intersections = <<>>
    /\ stack = <<>>
    /\ rows = <<>>
    /\ cur = 0
    /\ canvas = <<>>
    /\ aborted = ""
    /\ hxs = <<>>
    /\ hobjs = <<>>
    /\ hsel = 0
    /\ hout = [op |-> "none"]
    /\ setup = Constructed(IDENTITY_MATRIX_4)

CanvasFrame ==
    UNCHANGED << objects, lights, camera, budget, pc, px, py, writes,
                 intersections, stack, rows, cur, canvas, aborted,
                 hxs, hobjs, hsel, setup >>

\* c.write_pixel(x, y, color)
CanvasWritePixel ==
    /\ \E x \in CanvasCoordinates, y \in CanvasCoordinates, color \in {BLACK, 1} :
          \E w \in {write_pixel(image, x, y, color)} :
              /\ image' = w.canvas
              /\ hout' = [op |-> "write_pixel", x |-> x, y |-> y,
                          color |-> color, result |-> w.result]
    /\ CanvasFrame

\* c.pixel_at(x, y)
CanvasPixelAt ==
    /\ \E x \in CanvasCoordinates, y \in CanvasCoordinates :
          hout' = [op |-> "pixel_at", x |-> x, y |-> y,
                   result |-> pixel_at(image, x, y)]
    /\ UNCHANGED image
    /\ CanvasFrame

CanvasNext == CanvasWritePixel \/ CanvasPixelAt

SpecCanvas == CanvasInit /\ [][CanvasNext]_vars

----------------------------------------------------------------------------
(* Scene setup: the calls that give an object a transform *)

\* the matrices scene-setup code hands over: translations, scalings, their
\* products, and a scaling by 0, which has no inverse
GivenMatrices ==
    { IDENTITY_MATRIX_4, new_translation(2), new_translation(-3),
      new_scaling(2), new_scaling(-1),
      MatMul(new_translation(3), new_scaling(2)),
      MatMul(new_scaling(2), new_translation(3)),
      new_scaling(0) }

SetupInit ==
    /\ MachineIdle
    /\ hxs = <<>>
    /\ hobjs = <<>>
    /\ hsel = 0
    /\ hout = [op |-> "none"]
    /\ \E m \in GivenMatrices : setup = Constructed(m)

\* Plane::set_transformation_matrix
PlaneSetTransformationMatrix_KeepsInverse ==
    /\ \E matrix \in GivenMatrices :
          setup' = [setup EXCEPT !.plane.transformation_matrix = matrix]
    /\ UNCHANGED machineVars
    /\ UNCHANGED << hxs, hobjs, hsel, hout >>

PlaneSetTransformationMatrix ==
    /\ \E matrix \in GivenMatrices :
          setup' = [setup EXCEPT
                      !.plane.transformation_matrix = matrix,
                      !.plane.inverted_transformation_matrix = inverse(matrix)]
    /\ UNCHANGED machineVars
    /\ UNCHANGED << hxs, hobjs, hsel, hout >>

\* Sphere::set_transformation
SphereSetTransformation ==
    /\ \E m \in GivenMatrices :
          setup' = [setup EXCEPT
                      !.sphere.transformation_matrix = m,
                      !.sphere.inverted_transformation_matrix = inverse(m)]
    /\ UNCHANGED machineVars
    /\ UNCHANGED << hxs, hobjs, hsel, hout >>

\* Camera::set_transform
CameraSetTransform ==
    /\ \E transform \in GivenMatrices :
          setup' = [setup EXCEPT
                      !.camera.transform = transform,
                      !.camera.inverted_transform = inverse(transform)]
    /\ UNCHANGED machineVars
    /\ UNCHANGED << hxs, hobjs, hsel, hout >>

\* Pattern::set_transformation_matrix
PatternSetTransformationMatrix ==
    /\ \E matrix \in GivenMatrices :
          setup' = [setup EXCEPT
                      !.pattern.transformation_matrix = matrix,
                      !.pattern.inverse_transformation_matrix = inverse(matrix)]
    /\ UNCHANGED machineVars
    /\ UNCHANGED << hxs, hobjs, hsel, hout >>

SetupNext ==
    \/ PlaneSetTransformationMatrix
    \/ SphereSetTransformation
    \/ CameraSetTransform
    \/ PatternSetTransformationMatrix

SpecSetup == SetupInit /\ [][SetupNext]_vars

----------------------------------------------------------------------------
(* Claims about hit selection *)

NonNegative(xs) == {k \in 1..Len(xs) : ~TNeg(xs[k].t)}

\* indices of the intersections with the smallest t >= 0
Lowest(xs) ==
    {k \in NonNegative(xs) : \A j \in NonNegative(xs) : ~TLt(xs[j].t, xs[k].t)}

HitDone == hout.op \in {"hit", "consuming_hit"}

\* C3: hit and consuming_hit return an intersection of the collection whose
\* t is the minimum of all t >= 0, and None exactly when the collection holds
\* no t >= 0.
C3_HitIsLowestNonNegative ==
    HitDone =>
        /\ (hout.result = NONE) <=> (NonNegative(hxs) = {})
        /\ hout.result # NONE => \E k \in Lowest(hxs) : hout.result = hxs[k]

C3_Witness ==
    /\ hout.op = "consuming_hit"
    /\ hout.result # NONE
    /\ \E k \in 1..Len(hxs) : TNeg(hxs[k].t)
    /\ \E k \in NonNegative(hxs) : TLt(hout.result.t, hxs[k].t)

Min(S) == CHOOSE k \in S : \A j \in S : k <= j
Max(S) == CHOOSE k \in S : \A j \in S : k >= j

\* C4 as claimed: on a tie of the smallest t >= 0 both operations return the
\* intersection that occurs earliest in the collection.
C4_TieReturnsEarliest ==
    (HitDone /\ hout.result # NONE) => hout.result = hxs[Min(Lowest(hxs))]

\* C4 amended: on a tie hit returns the earliest of the tied intersections,
\* consuming_hit, which pops from the back, the latest.
C4_TieFollowsScanOrder ==
    /\ (hout.op = "hit" /\ hout.result # NONE)
           => hout.result = hxs[Min(Lowest(hxs))]
    /\ (hout.op = "consuming_hit" /\ hout.result # NONE)
           => hout.result = hxs[Max(Lowest(hxs))]

C4_Witness ==
    /\ hout.op = "consuming_hit"
    /\ hout.result # NONE
    /\ hxs[Min(Lowest(hxs))].object # hxs[Max(Lowest(hxs))].object

----------------------------------------------------------------------------
(* Claims about the refraction walk *)

\* The walk as the claim describes it: an object is in the container stack
\* when that very object was pushed, and the walk reaches the chosen
\* intersection at the first element with its t and its object.
ToggleSame(containers, o) ==
    IF \E k \in 1..Len(containers) : containers[k] = o
    THEN SelectSeq(containers, LAMBDA x : x # o)
    ELSE Append(containers, o)

RECURSIVE ContainersBefore(_, _)
ContainersBefore(xs, k) ==
    IF k = 1 THEN <<>>
    ELSE ToggleSame(ContainersBefore(xs, k - 1), xs[k - 1].object)

Reached(xs, i) ==
    Min({k \in 1..Len(xs) : TEq(xs[k].t, i.t) /\ xs[k].object = i.object})

\* C6: n1 is the index of the stack top before the chosen intersection's
\* object is toggled, n2 the index of the top after it, 1.0 for an empty
\* stack; the three glass spheres give (1.0,1.5), (1.5,2.0), (2.0,2.5),
\* (2.5,2.5), (2.5,1.5), (1.5,1.0).
C6_ContainerWalk ==
    hout.op = "prepare_computations" =>
        LET k == Reached(hxs, hxs[hsel])
            before == ContainersBefore(hxs, k)
            after == ToggleSame(before, hxs[k].object)
        IN  /\ hout.n1 = TopIndex(hobjs, before)
            /\ hout.n2 = TopIndex(hobjs, after)
            /\ hobjs = GlassSpheres =>
                   << hout.n1, hout.n2 >> =
                       << <<2, 3>>, <<3, 4>>, <<4, 5>>,
                          <<5, 5>>, <<5, 3>>, <<3, 2>> >>[hsel]

----------------------------------------------------------------------------
(* Claims about the intersection buffer and the two renders *)

AtHit == Running /\ Top.at = "hit"

\* C7: in every color_at call, also on a buffer reused from earlier calls,
\* the list used for hit selection and for n1/n2 holds exactly the
\* intersections of the current ray with the world's objects, sorted by t.
C7_BufferHoldsCurrentRayOnly ==
    AtHit => Top.intersections = intersect(objects, Top.ray, <<>>)

\* C8: par_render produces the canvas render produces, whatever the order
\* in which the rows' pixels were computed.
C8_ParRenderEqualsRender ==
    pc = "done" => canvas = image

\* C9: render returns Ok with hsize x vsize pixels, each written once with
\* the colour color_at gives for its ray from an empty buffer (the colour
\* render_row pushed for it), and never a CanvasError.
C9_RenderWritesFreshColors ==
    /\ aborted # "CanvasError"
    /\ pc # "render" =>
          /\ DOMAIN image = Pixels(camera)
          /\ \A xy \in Pixels(camera) : writes[xy] = 1
    /\ pc = "done" =>
          \A xy \in Pixels(camera) : image[xy] = rows[xy[2]][xy[1] + 1]

----------------------------------------------------------------------------
(* Claims about the recursion budget *)

MirrorCorridor == objects = << Mirror(-4), Mirror(4) >>

\* C1: every color_at call returns, also between two facing mirrors of
\* reflective 1.0; a color_at issued by reflected_color_at or
\* refracted_color_at carries the issuing shade_hit's budget minus one, and
\* no chain of nested color_at calls is longer than n + 1 for budget n.
C1_ColorAtTerminates ==
    /\ [](/\ aborted # "stack overflow"
          /\ Len(stack) <= budget + 1
          /\ \A k \in 2..Len(stack) :
                stack[k].remaining_recursion
                    = stack[k - 1].remaining_recursion - 1)
    /\ (stack # <<>>) ~> (stack = <<>>)
    /\ <>(pc = "done")

\* a pixel whose ray bounced between the mirrors until the budget ran out:
\* one ambient term per bounce came back
C1_Witness ==
    /\ MirrorCorridor
    /\ budget = MaxRecursion
    /\ pc = "done"
    /\ \E xy \in Pixels(camera) : image[xy] = MaxRecursion + 1

\* C2: remaining_recursion - 1 is only evaluated where remaining_recursion
\* > 0 holds, for every budget, 0 included: the subtraction never underflows.
C2_BudgetNeverUnderflows ==
    /\ aborted # "attempt to subtract with overflow"
    /\ \A k \in 1..Len(stack) :
          stack[k].at \in {"reflect_wait", "refract_wait"}
              => /\ stack[k].remaining_recursion > 0
                 /\ k < Len(stack)
                 /\ stack[k + 1].remaining_recursion + 1
                        = stack[k].remaining_recursion

\* a reflective, transparent surface shaded with budget 0: both
\* reflected_color_at and refracted_color_at have returned
C2_Witness ==
    /\ Running
    /\ Top.at = "return"
    /\ Top.remaining_recursion = 0
    /\ objects[Top.comps.object].reflective = 1
    /\ objects[Top.comps.object].transparency = 1

----------------------------------------------------------------------------
(* Claims about shadows and lights *)

\* Where the half-line from point towards the light meets the objects, as
\* signed distances from point: a plane once, a sphere at the two ends of
\* its chord or not at all.
ShadowTs(objs, light, point) ==
    LET s == Sgn(light.y - point)
        At(o) == IF objs[o].kind = "plane" THEN {(objs[o].ty - point) * s}
                 ELSE IF Abs(objs[o].tx) > objs[o].scale THEN {}
                 ELSE LET h == Sqrt(objs[o].scale * objs[o].scale
                                       - objs[o].tx * objs[o].tx)
                      IN  {(objs[o].ty - point) * s - h,
                           (objs[o].ty - point) * s + h}
    IN  IF s = 0 THEN {}
        ELSE {t \in UNION {At(o) : o \in 1..Len(objs)} : t >= 0}

\* a shade_hit whose loop has taken its k-th light
Lighted(k) == stack[k].comps # NONE /\ stack[k].light > 1

\* C11: in_shadow is true exactly when the shadow ray from the point towards
\* the light has a nearest intersection with t >= 0 over all objects and
\* that t is strictly less than the distance to the light.
C11_InShadowIffNearestHitBeforeLight ==
    \A k \in 1..Len(stack) :
        Lighted(k) =>
            LET light == lights[stack[k].light - 1]
                point == stack[k].comps.over_point
                ts == ShadowTs(objects, light, point)
            IN  stack[k].in_shadow
                    <=> (ts # {} /\ Min(ts) < Abs(light.y - point))

\* a point that is in shadow of one object while another lies beyond the
\* light
C11_Witness ==
    /\ Running /\ Lighted(Len(stack)) /\ Top.in_shadow
    /\ LET light == lights[Top.light - 1]
       IN  \E t \in ShadowTs(objects, light, Top.comps.over_point) :
               t > Abs(light.y - Top.comps.over_point)
\* the light is hidden from the point: C11's condition
Hidden(light, point) ==
    LET ts == ShadowTs(objects, light, point)
    IN  ts # {} /\ Min(ts) < Abs(light.y - point)

\* what the j-th light of the sequence adds for the hit comps: the ambient
\* term for the first light only, diffuse and specular unless it is hidden
Contribution(comps, j) ==
    LET m == objects[comps.object]
        ambient == IF j = 1 THEN m.color * lights[j].intensity * m.ambient
                   ELSE BLACK
    IN  IF Hidden(lights[j], comps.over_point) THEN ambient
        ELSE ambient + lighting(m, lights[j], comps.over_point, comps.eyev,
                                comps.normalv, FALSE, FALSE)

RECURSIVE Contributions(_, _)
Contributions(comps, k) ==
    IF k = 0 THEN BLACK ELSE Contributions(comps, k - 1) + Contribution(comps, k)

\* C12: in shade_hit the ambient term is added for the first light and for
\* no other; a light the point is in shadow of adds its ambient term only
\* (black after the first light), without diffuse and specular.
C12_AmbientOnceShadowSuppresses ==
    \A k \in 1..Len(stack) :
        stack[k].comps # NONE =>
            stack[k].surface = Contributions(stack[k].comps, stack[k].light - 1)

\* two lights taken: the first one lights the point with a diffuse term,
\* the second one is hidden
C12_Witness ==
    /\ Running /\ Top.comps # NONE /\ Top.light = 3
    /\ objects[Top.comps.object].diffuse = 1
    /\ ~Hidden(lights[1], Top.comps.over_point)
    /\ lighting(objects[Top.comps.object], lights[1], Top.comps.over_point,
                Top.comps.eyev, Top.comps.normalv, FALSE, FALSE) > 0
    /\ Hidden(lights[2], Top.comps.over_point)
Orders(n) ==
    {f \in [1..n -> 1..n] : \A i, j \in 1..n : i # j => f[i] # f[j]}

\* C13: the order of the lights changes nothing: the surface colour that
\* shade_hit has after its loop is the one the loop gives for every
\* permutation of the light sequence, lights of different intensity included.
C13_LightOrderIrrelevant ==
    \A k \in 1..Len(stack) :
        (stack[k].comps # NONE /\ stack[k].light = Len(lights) + 1) =>
            \A f \in Orders(Len(lights)) :
                stack[k].surface =
                    LightLoop(objects, [i \in 1..Len(lights) |-> lights[f[i]]],
                              stack[k].comps, 1, BLACK, TRUE, <<>>)
----------------------------------------------------------------------------
(* Claims about shade_hit and color_at *)

\* the colour the color_at on top of the stack is about to return
Returned == IF Top.at = "return"
            THEN Top.surface + Top.reflected + Top.refracted
            ELSE BLACK

\* the step is the return of a color_at to a shade_hit waiting in state at
ReturnsTo(at) ==
    /\ Len(stack) >= 2 /\ stack[Len(stack) - 1].at = at
    /\ Len(stack') = Len(stack) - 1

C14_Step ==
    LET n == Len(stack)
        m == objects[Top.comps.object]
    IN  /\ (Running /\ Top.at = "shade_hit" /\ Top.light > Len(lights)
                /\ aborted' = "") =>
              IF Top.remaining_recursion = 0 \/ m.reflective = 0
              THEN /\ Len(stack') = n
                   /\ stack'[n] = [Top EXCEPT !.at = "refracted_color_at",
                                              !.reflected = BLACK]
              ELSE /\ Len(stack') = n + 1
                   /\ stack'[n].at = "reflect_wait"
                   /\ stack'[n + 1] =
                        Frame(Ray(Top.comps.over_point, Top.comps.reflectv.dy,
                                  Top.comps.reflectv.p, Top.comps.reflectv.q),
                              <<>>, Top.remaining_recursion - 1)
        /\ ReturnsTo("reflect_wait") =>
              /\ stack'[n - 1].at = "refracted_color_at"
              /\ stack'[n - 1].reflected =
                    Returned * objects[stack[n - 1].comps.object].reflective

TotalInternalReflection(comps) ==
    comps.n1 * comps.n1 * (comps.eyev.q - comps.eyev.p)
        > comps.n2 * comps.n2 * comps.eyev.q

\* cos_t^2 = 1 - sin2_t as a fraction
CosT2(comps) ==
    LET den == comps.n2 * comps.n2 * comps.eyev.q
    IN  [p |-> den - comps.n1 * comps.n1 * (comps.eyev.q - comps.eyev.p),
         q |-> den]

C15_Step ==
    LET n == Len(stack)
        m == objects[Top.comps.object]
    IN  /\ (Running /\ Top.at = "refracted_color_at" /\ aborted' = "") =>
              IF \/ Top.remaining_recursion = 0
                 \/ m.transparency = 0
                 \/ TotalInternalReflection(Top.comps)
              THEN /\ Len(stack') = n
                   /\ stack'[n] = [Top EXCEPT !.at = "return",
                                              !.refracted = BLACK]
              ELSE /\ Len(stack') = n + 1
                   /\ stack'[n].at = "refract_wait"
                   /\ stack'[n + 1] =
                        Frame(Ray(Top.comps.under_point, -Top.comps.normalv,
                                  CosT2(Top.comps).p, CosT2(Top.comps).q),
                              <<>>, Top.remaining_recursion - 1)
        /\ ReturnsTo("refract_wait") =>
              /\ stack'[n - 1].at = "return"
              /\ stack'[n - 1].refracted =
                    Returned * objects[stack[n - 1].comps.object].transparency

\* C15: refracted_color_at gives black and casts no ray when the budget is
\* 0, the transparency is exactly 0 or sin2_t > 1; in every other case it
\* calls color_at once, from under_point with the budget less one, and
\* gives that colour times the transparency.
C15_RefractedColorAt == [][C15_Step]_vars

\* a refracted colour that is not black has come back through a pane of
\* transparency 3, and elsewhere a ray was totally reflected
C15_Witness ==
    /\ Running /\ Top.at = "return"
    /\ objects[Top.comps.object].transparency = 3
    /\ Top.refracted > 0

C15_WitnessTotalReflection ==
    /\ Running /\ Top.at = "return"
    /\ Top.remaining_recursion > 0
    /\ objects[Top.comps.object].transparency # 0
    /\ TotalInternalReflection(Top.comps)
\* the step hands the colour c of the color_at on top of the stack to its
\* caller: to the shade_hit below it, times the coefficient, or to the
\* holder of the ray
Hands(c) ==
    LET n == Len(stack)
    IN  IF n = 1
        THEN stack' = <<>> /\ hout'.op = "color_at" /\ hout'.color = c
        ELSE /\ Len(stack') = n - 1
             /\ IF stack[n - 1].at = "reflect_wait"
                THEN stack'[n - 1].reflected = c * stack[n - 1].factor
                ELSE stack'[n - 1].refracted = c * stack[n - 1].factor

C16_Step ==
    (Running /\ Top.at = "return") =>
        LET m == objects[Top.comps.object]
            surface == Contributions(Top.comps, Len(lights))
        IN  /\ Hands(surface + Top.reflected + Top.refracted)
            /\ (\/ Top.remaining_recursion = 0
                \/ (m.reflective = 0 /\ m.transparency = 0)) => Hands(surface)

\* C16: shade_hit returns surface + reflected + refracted, where surface
\* is the sum of what each light contributes; with budget 0, or with
\* reflective and transparency both 0, it returns surface alone.
C16_ShadeHitSum == [][C16_Step]_vars

\* a shade_hit is about to return a sum of three colours none of which is
\* black
C16_Witness ==
    /\ Running /\ Top.at = "return"
    /\ Top.surface > 0 /\ Top.reflected > 0 /\ Top.refracted > 0
\* the sorted intersections of a ray with every object of the world
OfRay(ray) == intersect(objects, ray, <<>>)

\* C17: color_at returns black and casts no further ray when its ray meets
\* no object at t >= 0; otherwise it shades the nearest intersection with
\* t >= 0, with the PreparedComputations of that hit over the sorted list
\* of the ray's intersections with all objects.
C17_ShadesNearestHitOfRay ==
    \A k \in 1..Len(stack) :
        LET own == OfRay(stack[k].ray)
            nearest == hit(own).result
        IN  /\ stack[k].comps # NONE =>
                  /\ nearest # NONE
                  /\ stack[k].comps =
                        prepare_computations(objects, nearest, stack[k].ray, own)
            /\ (stack[k].at # "intersect" /\ nearest = NONE) =>
                  /\ stack[k].comps = NONE
                  /\ k = Len(stack)

\* the part of C17 that does not read the list: the intersection shaded is
\* the nearest one of the ray at t >= 0, and there is none on a miss
C17_NearestHitShaded ==
    \A k \in 1..Len(stack) :
        LET nearest == hit(OfRay(stack[k].ray)).result
        IN  /\ stack[k].comps # NONE =>
                  /\ nearest # NONE
                  /\ stack[k].comps.object = nearest.object
                  /\ TEq(stack[k].comps.t, nearest.t)
            /\ (stack[k].at # "intersect" /\ nearest = NONE) =>
                  /\ stack[k].comps = NONE
                  /\ k = Len(stack)
----------------------------------------------------------------------------
(* Claims about cached inverses *)

\* inv undoes m from both sides
IsInverseOf(inv, m) ==
    MatMul(inv, m) = IDENTITY_MATRIX_4 /\ MatMul(m, inv) = IDENTITY_MATRIX_4

\* C18: after construction and after any sequence of set-transform calls
\* on a Plane, a Sphere, a Camera and a Pattern, the inverse each one keeps
\* is the inverse of the transform it has (for a transform that has one).
C18_CachedInverseIsInverse ==
    /\ invertible(setup.plane.transformation_matrix) =>
          IsInverseOf(setup.plane.inverted_transformation_matrix,
                      setup.plane.transformation_matrix)
    /\ invertible(setup.sphere.transformation_matrix) =>
          IsInverseOf(setup.sphere.inverted_transformation_matrix,
                      setup.sphere.transformation_matrix)
    /\ invertible(setup.camera.transform) =>
          IsInverseOf(setup.camera.inverted_transform, setup.camera.transform)
    /\ invertible(setup.pattern.transformation_matrix) =>
          IsInverseOf(setup.pattern.inverse_transformation_matrix,
                      setup.pattern.transformation_matrix)

\* every object has been given a transform of its own, none the identity;
\* the plane's is y' = 2 * y + 3, kept with y = y' / 2 - 3/2
C18_Witness ==
    /\ setup.plane.transformation_matrix = MatMul(new_translation(3), new_scaling(2))
    /\ setup.plane.inverted_transformation_matrix =
          Mat4(F64(1, 2), F64(-3, 2), F64(0, 1), F64(1, 1))
    /\ setup.sphere.transformation_matrix = new_scaling(-1)
    /\ setup.camera.transform = new_translation(-3)
    /\ setup.pattern.transformation_matrix = MatMul(new_scaling(2), new_translation(3))
----------------------------------------------------------------------------
(* Claims about Shape::intersect *)

\* C19: Shape::intersect neither clears nor reorders the collection: what
\* was in it is an unchanged prefix of what is in it after the call, and
\* what follows are 0 or 2 intersections (sphere), 0 or 1 (plane), each
\* referring to the shape intersected.
C19_IntersectAppendsOnly ==
    hout.op = "intersect" =>
        LET out == hout.intersections
            n == Len(hxs)
        IN  /\ Len(out) >= n
            /\ SubSeq(out, 1, n) = hxs
            /\ Len(out) - n \in (IF hobjs[hsel].kind = "sphere" THEN {0, 2}
                                  ELSE {0, 1})
            /\ \A k \in (n + 1)..Len(out) : out[k].object = hsel

\* a sphere has added its two intersections behind two unsorted ones of
\* other shapes
C19_Witness ==
    /\ hout.op = "intersect"
    /\ hobjs[hsel].kind = "sphere" /\ hsel # 2
    /\ Len(hxs) = 2 /\ TLt(hxs[2].t, hxs[1].t)
    /\ Len(hout.intersections) = 4
    /\ TLt(hout.intersections[3].t, hxs[1].t)
----------------------------------------------------------------------------
(* Claims about failures *)

\* C20: shading raises nothing: color_at never aborts, whatever the world
\* and the ray; the comparison that sorts the intersections in
\* World::intersect does not fail on any t a shape pushes.
C20_ColorAtNeverAborts == aborted = ""
----------------------------------------------------------------------------
(* Claims about the Canvas *)

InvalidCoordinates(cv, x, y) == x >= cv.width \/ y >= cv.height

C21_Step ==
    LET x == hout'.x
        y == hout'.y
    IN  /\ hout'.op = "write_pixel" =>
              IF InvalidCoordinates(image, x, y)
              THEN hout'.result = "InvalidCoordinates" /\ image' = image
              ELSE /\ hout'.result = "Ok"
                   /\ image'.width = image.width
                   /\ image'.height = image.height
                   /\ pixel_at(image', x, y) = [result |-> "Ok", color |-> hout'.color]
                   /\ \A i \in 0..(image.width - 1), j \in 0..(image.height - 1) :
                          << i, j >> # << x, y >> =>
                              pixel_at(image', i, j) = pixel_at(image, i, j)
        /\ hout'.op = "pixel_at" =>
              /\ image' = image
              /\ IF InvalidCoordinates(image, x, y)
                 THEN hout'.result = [result |-> "InvalidCoordinates"]
                 ELSE hout'.result = [result |-> "Ok",
                                      color |-> image.canvas[y + 1][x + 1]]

\* C21: write_pixel and pixel_at give InvalidCoordinates exactly when
\* x >= width or y >= height and never clamp; a rejected write changes no
\* pixel; a write that is accepted makes pixel_at(x, y) the colour written
\* and leaves every other pixel, the width and the height as they were.
C21_CanvasBounds == [][C21_Step]_vars

\* the last pixel of the only row of a canvas 2 wide and 1 high has been
\* written while the first one holds another colour
C21_Witness ==
    /\ hout.op = "write_pixel" /\ hout.result = "Ok"
    /\ hout.x = 1 /\ hout.y = 0 /\ hout.color = 1
    /\ image.width = 2 /\ image.height = 1
    /\ image.canvas = << << BLACK, 1 >> >>
----------------------------------------------------------------------------
(* Claims about PreparedComputations *)

\* C22: the normal kept in PreparedComputations faces the eye,
\* dot(normalv, eyev) >= 0 with eyev = -ray.direction; inside is true
\* exactly when the shape's own normal at the point has a negative dot
\* product with eyev, and then normalv is that normal negated; otherwise
\* normalv is that normal.
C22_NormalFacesEye ==
    \A k \in 1..Len(stack) :
        stack[k].comps # NONE =>
            LET c == stack[k].comps
                raw == normal_at(objects[c.object], c.point)
                eye == -stack[k].ray.dy
            IN  /\ c.eyev.dy = eye
                /\ c.normalv * c.eyev.dy >= 0
                /\ c.inside <=> (raw * eye < 0)
                /\ c.normalv = IF c.inside THEN -raw ELSE raw

\* a ball hit from within: the normal is turned round
C22_Witness ==
    /\ Running /\ Top.comps # NONE
    /\ objects[Top.comps.object].kind = "sphere"
    /\ Top.comps.inside
    /\ Top.comps.normalv = -normal_at(objects[Top.comps.object], Top.comps.point)
    /\ Top.comps.normalv # 0
----------------------------------------------------------------------------
(* Claims about World::intersect *)

\* the elements of xs that refer to object o, in their order
OfObject(xs, o) == SelectSeq(xs, LAMBDA i : i.object = o)

\* C23: World::intersect on an empty Vec leaves it sorted ascending by t
\* and holding what each object of the world gives for the ray, nothing
\* dropped or doubled, negative t kept; intersections of equal t stand in
\* the order in which their objects were added.
C23_IntersectSortedUnion ==
    (hout.op = "intersect" /\ hout.panic = "") =>
        LET out == hout.intersections
        IN  /\ IsSorted(out)
            /\ \A k \in 1..Len(out) : out[k].object \in 1..Len(hobjs)
            /\ \A o \in 1..Len(hobjs) :
                  OfObject(out, o) = ShapeIntersect(hobjs, o, hout.ray, <<>>)
            /\ \A j, k \in 1..Len(out) :
                  (j < k /\ TEq(out[j].t, out[k].t)) =>
                      out[j].object <= out[k].object

\* a ball and two planes that its top touches: the three intersections
\* that share a t stand in the order of their objects, in front of the
\* ball's second intersection, which was pushed before those of the planes
C23_Witness ==
    /\ hout.op = "intersect" /\ hout.panic = ""
    /\ Len(hobjs) = 3
    /\ hobjs[1].kind = "sphere" /\ hobjs[2].kind = "plane"
    /\ Len(hout.intersections) = 4
    /\ [k \in 1..4 |-> hout.intersections[k].object] = << 1, 2, 3, 1 >>
    /\ TNeg(hout.intersections[1].t)
    /\ TEq(hout.intersections[1].t, hout.intersections[3].t)
    /\ TLt(hout.intersections[3].t, hout.intersections[4].t)
----------------------------------------------------------------------------
(* Claims about Sphere::local_intersect *)

\* what the call added to the Vec
Added == SubSeq(hout.intersections, Len(hxs) + 1, Len(hout.intersections))

\* the point of the ray at t lies on the sphere: its distance from the
\* centre is the radius
OnSphere(shape, ray, t) ==
    LET y == ray.oy + ray.dy * t.num - shape.ty
    IN  y * y + shape.tx * shape.tx = shape.scale * shape.scale

\* the line of the ray passes the centre at more than the radius: the
\* discriminant is negative
PassesBy(shape) == shape.tx * shape.tx > shape.scale * shape.scale

\* C24: a sphere adds nothing when the discriminant is negative and
\* otherwise exactly two intersections, the one of the smaller root first,
\* also when one root or both are negative, and two of equal t for a ray
\* that touches it.
C24_SphereTwoRootsInOrder ==
    (hout.op = "intersect" /\ hsel # 0 /\ hobjs[hsel].kind = "sphere") =>
        IF ~IsNaN(hout.ray) /\ PassesBy(hobjs[hsel]) THEN Added = <<>>
        ELSE /\ Len(Added) = 2
             /\ ~TLt(Added[2].t, Added[1].t)
             /\ ~IsNaN(hout.ray) =>
                   /\ OnSphere(hobjs[hsel], hout.ray, Added[1].t)
                   /\ OnSphere(hobjs[hsel], hout.ray, Added[2].t)
                   /\ TEq(Added[1].t, Added[2].t) <=>
                         (hobjs[hsel].tx = hobjs[hsel].scale)

\* a ray that starts within the ball: the root behind the origin stands
\* first, the one ahead second
C24_Witness ==
    /\ hout.op = "intersect" /\ hsel # 0 /\ hobjs[hsel].kind = "sphere"
    /\ Len(Added) = 2
    /\ TNeg(Added[1].t) /\ TLt(T(0), Added[2].t)

\* a ray that touches the ball, and a ray with the ball behind it
C24_WitnessTangent ==
    /\ hout.op = "intersect" /\ hsel # 0 /\ hobjs[hsel].kind = "sphere"
    /\ Len(Added) = 2 /\ TEq(Added[1].t, Added[2].t)

C24_WitnessBehind ==
    /\ hout.op = "intersect" /\ hsel # 0 /\ hobjs[hsel].kind = "sphere"
    /\ Len(Added) = 2 /\ TNeg(Added[2].t) /\ TLt(Added[1].t, Added[2].t)
----------------------------------------------------------------------------
(* Claims about Material::lighting *)

\* the three terms for the arguments a of a lighting call on material m;
\* the vectors lie on one axis, so each dot product is 1 or -1 and the
\* light's mirror image about the normal is the light's own direction
AmbientTerm(m, a) ==
    IF a.use_ambient THEN m.color * a.light.intensity * m.ambient ELSE BLACK
LightDotNormal(a) == Sgn(a.light.y - a.point) * a.normalv
ReflectDotEye(a) == Sgn(a.light.y - a.point) * a.eyev.dy
DiffuseTerm(m, a) == m.color * a.light.intensity * m.diffuse * LightDotNormal(a)
SpecularTerm(m, a) == a.light.intensity * m.specular * ReflectDotEye(a)

----------------------------------------------------------------------------
(* Claims about the intersection buffer *)

\* C26: a color_at that was entered with an empty Vec returns with the Vec
\* empty again, after a hit and after a miss alike, also after a miss in
\* which the ray has intersections at negative t only.
C26_ColorAtLeavesBufferEmpty ==
    pc = "returned" => intersections = <<>>
----------------------------------------------------------------------------
(* Claims about the identity of shapes in the refraction walk *)

\* the container stack the walk of compute_n1_n2 holds before it looks at
\* xs[k]
RECURSIVE WalkContainersBefore(_, _)
WalkContainersBefore(xs, k) ==
    IF k = 1 THEN <<>>
    ELSE Toggle(hobjs, WalkContainersBefore(xs, k - 1), xs[k - 1].object)

\* the first element the walk takes for the chosen intersection
WalkReached(xs, i) ==
    Min({k \in 1..Len(xs) : IntersectionEq(hobjs, xs[k], i)})

\* C27: the refraction walk never takes two different objects for one
\* container and never takes an intersection of another object for the
\* chosen one, also when the objects agree in transform, colour, ambient,
\* diffuse, specular and shininess and differ in reflective, transparency
\* or refractive_index only.
C27_WalkTellsShapesApart ==
    hout.op = "prepare_computations" =>
        LET k == WalkReached(hxs, hxs[hsel])
        IN  /\ hxs[k].object = hxs[hsel].object
            /\ \A j \in 1..(k + 1) :
                  WalkContainersBefore(hxs, j) = ContainersBefore(hxs, j)
----------------------------------------------------------------------------
(* Claims about the refractive indices of the prepared computations *)

\* the collection a prepare_computations of the harness was given
PreparedOver == IF "intersections" \in DOMAIN hout THEN hout.intersections ELSE hxs

\* 1.0 and the refractive indices of the objects that appear in xs
IndicesIn(objs, xs) ==
    {VACUUM} \cup {objs[xs[k].object].refractive_index : k \in 1..Len(xs)}

----------------------------------------------------------------------------
(* Claims about the number of color_at invocations *)

\* the color_at calls made so far on behalf of the top-level call
InvocationsSoFar ==
    IF stack = <<>> THEN 0
    ELSE LET F[d \in 0..Len(stack)] ==
                 IF d = 0 THEN 0 ELSE F[d - 1] + stack[d].invocations
         IN  F[Len(stack)]

\* C29: a top-level color_at call with recursion budget n makes at most
\* 2^(n+1) - 1 color_at invocations in all, itself included, and with budget
\* 0 exactly one; every color_at called with budget m makes at most
\* 2^(m+1) - 1.
C29_InvocationsBounded ==
    /\ pc = "color_at" =>
          /\ InvocationsSoFar <= 2^(budget + 1) - 1
          /\ \A d \in 1..Len(stack) :
                stack[d].invocations <= 2^(stack[d].remaining_recursion + 1) - 1
    /\ (pc = "returned" /\ hout.op = "color_at") =>
          /\ hout.invocations >= 1
          /\ hout.invocations <= 2^(budget + 1) - 1
          /\ budget = 0 => hout.invocations = 1

\* a color_at with budget 1 whose hit is reflective and transparent has
\* returned after 2^2 - 1 = 3 invocations
C29_Witness ==
    /\ pc = "returned" /\ hout.op = "color_at"
    /\ budget = 1
    /\ hout.invocations = 3

\* a color_at with budget 0 has returned the colour of a hit
C29_WitnessBudgetZero ==
    /\ pc = "returned" /\ hout.op = "color_at"
    /\ budget = 0
    /\ hout.invocations = 1
    /\ hout.color # BLACK
----------------------------------------------------------------------------
(* Claims about the Vec that the shadow tests of one shade_hit share *)

\* Vecs that in_shadow may be entered with: intersections of the objects of
\* the world behind and ahead of the origin of a ray
EntryBuffers ==
    SeqsUpTo([t : {T(-1), T(2)}, object : 1..Len(objects)], MaxSize)

C30_Step ==
    (Running /\ Top.at = "shade_hit" /\ Top.light <= Len(lights)) =>
        LET light == lights[Top.light]
            point == Top.comps.over_point
        IN  /\ Top.intersections = <<>>
            /\ aborted' = "" =>
                  /\ stack'[Len(stack)].intersections = <<>>
                  /\ stack'[Len(stack)].in_shadow =
                        in_shadow(objects, light, point, <<>>).shadowed
            /\ \A xs \in EntryBuffers :
                  ~intersect_panics(objects, ShadowRay(light, point), xs) =>
                      in_shadow(objects, light, point, xs).intersections = <<>>

\* C30: in_shadow returns with the Vec empty whatever it held on entry, so
\* in a shade_hit that was entered with an empty Vec the shadow test of
\* every light starts from an empty Vec, and its outcome is that of
\* in_shadow for this world, this light and over_point on an empty Vec,
\* whatever the tests of the lights before it found.
C30_ShadowTestsIndependent == [][C30_Step]_vars

\* the shadow test of a second light has found the point lit after the test
\* of the first light found it in shadow, the Vec empty after both
C30_Witness ==
    /\ Running /\ Top.at = "shade_hit"
    /\ Top.light = 3
    /\ Top.intersections = <<>>
    /\ ~Top.in_shadow
    /\ in_shadow(objects, lights[1], Top.comps.over_point, <<>>).shadowed
    /\ intersect(objects, ShadowRay(lights[2], Top.comps.over_point), <<>>) # <<>>
====
